---- MODULE Spec2Model ----
(***************************************************************************)
(* promptantic leaf handlers (handlers/primitives.py, constrained.py,      *)
(* special.py): one handle() call as a state machine                       *)
(*   start -> (raise before the prompt | suspended on prompt_async)        *)
(*         -> (line read | cancel signal) -> loop body -> return / raise   *)
(* driven by a retry loop that re-invokes handle() after ValidationError.  *)
(* Text is a sequence of one-character strings, so that int(), float(),    *)
(* Decimal(), UUID(), str(), repr() and re.match() are computed on the     *)
(* characters.                                                             *)
(***************************************************************************)
EXTENDS Integers, Sequences, FiniteSets, TLC

(***************************************************************************)
(* Bounds of the model.                                                    *)
(***************************************************************************)
\* longest line generated from Alphabet (the corpus lines come on top)
MaxLen == 2
\* calls of handle() one retry loop makes before the model stops it
MaxAttempts == 2

(***************************************************************************)
(* Text.                                                                   *)
(***************************************************************************)
Digits == {"0", "1", "2", "3", "4", "5", "6", "7", "8", "9"}
HexLetters == {"a", "b", "c", "d", "e", "f", "A", "B", "C", "D", "E", "F"}
Lower == {"a", "b", "c", "d", "e", "f", "g", "h", "i", "j", "k", "l", "m",
          "n", "o", "p", "q", "r", "s", "t", "u", "v", "w", "x", "y", "z"}
Upper == {"A", "B", "C", "D", "E", "F", "G", "H", "I", "J", "K", "L", "M",
          "N", "O", "P", "Q", "R", "S", "T", "U", "V", "W", "X", "Y", "Z"}
Whitespace == {" "}

DigitVal(c) ==
    CASE c = "0" -> 0 [] c = "1" -> 1 [] c = "2" -> 2 [] c = "3" -> 3
      [] c = "4" -> 4 [] c = "5" -> 5 [] c = "6" -> 6 [] c = "7" -> 7
      [] c = "8" -> 8 [] c = "9" -> 9

DigitChar(n) ==
    CASE n = 0 -> "0" [] n = 1 -> "1" [] n = 2 -> "2" [] n = 3 -> "3"
      [] n = 4 -> "4" [] n = 5 -> "5" [] n = 6 -> "6" [] n = 7 -> "7"
      [] n = 8 -> "8" [] n = 9 -> "9"

UpperSeq == <<"A", "B", "C", "D", "E", "F", "G", "H", "I", "J", "K", "L", "M",
              "N", "O", "P", "Q", "R", "S", "T", "U", "V", "W", "X", "Y", "Z">>
LowerSeq == <<"a", "b", "c", "d", "e", "f", "g", "h", "i", "j", "k", "l", "m",
              "n", "o", "p", "q", "r", "s", "t", "u", "v", "w", "x", "y", "z">>

\* str.lower() and str.upper() on one character
LowerChar(c) ==
    IF c \in Upper THEN LowerSeq[CHOOSE i \in 1..26 : UpperSeq[i] = c] ELSE c
UpperChar(c) ==
    IF c \in Lower THEN UpperSeq[CHOOSE i \in 1..26 : LowerSeq[i] = c] ELSE c

StrLower(s) == [i \in 1..Len(s) |-> LowerChar(s[i])]

RECURSIVE LStrip(_)
LStrip(s) ==
    IF s # <<>> /\ Head(s) \in Whitespace THEN LStrip(Tail(s)) ELSE s

RECURSIVE RStrip(_)
RStrip(s) ==
    IF s # <<>> /\ s[Len(s)] \in Whitespace
    THEN RStrip(SubSeq(s, 1, Len(s) - 1)) ELSE s

\* str.strip()
Strip(s) == RStrip(LStrip(s))

\* s.replace(c, "")
RECURSIVE RemoveChar(_, _)
RemoveChar(s, c) ==
    IF s = <<>> THEN <<>>
    ELSE IF Head(s) = c THEN RemoveChar(Tail(s), c)
    ELSE <<Head(s)>> \o RemoveChar(Tail(s), c)

AllIn(s, cs) == \A i \in 1..Len(s) : s[i] \in cs

\* value of a digit string, most significant digit first
RECURSIVE DigitsVal(_)
DigitsVal(s) ==
    IF s = <<>> THEN 0
    ELSE 10 * DigitsVal(SubSeq(s, 1, Len(s) - 1)) + DigitVal(s[Len(s)])

RECURSIVE NatStr(_)
NatStr(n) ==
    IF n < 10 THEN <<DigitChar(n)>>
    ELSE NatStr(n \div 10) \o <<DigitChar(n % 10)>>

\* str(n) of an int
IntStr(n) == IF n < 0 THEN <<"-">> \o NatStr(0 - n) ELSE NatStr(n)

\* digits with single underscores between them, as int()/float()/Decimal() allow
DigitGroup(s) ==
    /\ s # <<>>
    /\ AllIn(s, Digits \cup {"_"})
    /\ s[1] # "_"
    /\ s[Len(s)] # "_"
    /\ \A i \in 1..(Len(s) - 1) : ~(s[i] = "_" /\ s[i + 1] = "_")

Unsigned(s) == IF s # <<>> /\ Head(s) \in {"+", "-"} THEN Tail(s) ELSE s
Sign(s) == IF s # <<>> /\ Head(s) = "-" THEN 0 - 1 ELSE 1

Failed == [ok |-> FALSE, v |-> 0]
Parsed(v) == [ok |-> TRUE, v |-> v]

\* int(text): surrounding whitespace, an optional sign, a digit group
IntParse(s) ==
    LET body == Unsigned(Strip(s))
    IN  IF DigitGroup(body)
        THEN Parsed(Sign(Strip(s)) * DigitsVal(RemoveChar(body, "_")))
        ELSE Failed

(***************************************************************************)
(* Decimal numbers <<m, e>> stand for m / 10^e, kept without trailing      *)
(* fractional zeros.  The lines of the model hold no exponent and no       *)
(* inf/nan spelling.                                                       *)
(***************************************************************************)
RECURSIVE Pow10(_)
Pow10(e) == IF e = 0 THEN 1 ELSE 10 * Pow10(e - 1)

RECURSIVE Normal(_)
Normal(d) ==
    IF d[2] > 0 /\ d[1] % 10 = 0 THEN Normal(<<d[1] \div 10, d[2] - 1>>) ELSE d

IndexOf(s, c) ==
    IF \E i \in 1..Len(s) : s[i] = c
    THEN CHOOSE i \in 1..Len(s) : s[i] = c /\ \A j \in 1..(i - 1) : s[j] # c
    ELSE 0

\* the grammar float() and Decimal() share on these lines: surrounding
\* whitespace, an optional sign, digits with an optional "." among them
DecParse(s) ==
    LET body == Unsigned(Strip(s))
        dot  == IndexOf(body, ".")
        ip   == IF dot = 0 THEN body ELSE SubSeq(body, 1, dot - 1)
        fp   == IF dot = 0 THEN <<>> ELSE SubSeq(body, dot + 1, Len(body))
        good == /\ ip # <<>> \/ fp # <<>>
                /\ ip = <<>> \/ DigitGroup(ip)
                /\ fp = <<>> \/ DigitGroup(fp)
        fd   == RemoveChar(fp, "_")
    IN  IF good
        THEN Parsed(Normal(<<Sign(Strip(s)) * DigitsVal(RemoveChar(ip, "_") \o fd),
                             Len(fd)>>))
        ELSE Failed

\* the digits of n, left-padded with zeros to width w
RECURSIVE Padded(_, _)
Padded(n, w) ==
    IF w = 0 THEN <<>> ELSE Padded(n \div 10, w - 1) \o <<DigitChar(n % 10)>>

Abs(n) == IF n < 0 THEN 0 - n ELSE n

\* str(Decimal): the digits, with a "." when there is a fraction
DecStr(d) ==
    (IF d[1] < 0 THEN <<"-">> ELSE <<>>)
        \o NatStr(Abs(d[1]) \div Pow10(d[2]))
        \o (IF d[2] = 0 THEN <<>>
            ELSE <<".">> \o Padded(Abs(d[1]) % Pow10(d[2]), d[2]))

\* repr(float) and str(float): always with a fraction
FloatRepr(d) == IF d[2] = 0 THEN DecStr(d) \o <<".", "0">> ELSE DecStr(d)

(***************************************************************************)
(* Python values: a type tag and, as payload, the text that writes the     *)
(* value (for a SecretStr, the secret).                                    *)
(***************************************************************************)
None == [t |-> "NoneType", v |-> <<"N", "o", "n", "e">>]
PyStr(s) == [t |-> "str", v |-> s]
PyInt(n) == [t |-> "int", v |-> IntStr(n)]
PyFloat(d) == [t |-> "float", v |-> FloatRepr(d)]
PyDecimal(d) == [t |-> "Decimal", v |-> DecStr(d)]
PyBool(b) ==
    [t |-> "bool", v |-> IF b THEN <<"T", "r", "u", "e">> ELSE <<"F", "a", "l", "s", "e">>]
PySecret(s) == [t |-> "SecretStr", v |-> s]
PyPath(s) == [t |-> "Path", v |-> s]
PyUUID(s) == [t |-> "UUID", v |-> s]

IntOf(x) == IntParse(x.v).v
BoolOf(x) == x.v = <<"T", "r", "u", "e">>

\* equal in type and in value
Same(a, b) == a.t = b.t /\ a.v = b.v

\* str(x) of a Python value
PyStrOf(x) ==
    IF x.t = "SecretStr" THEN <<"*", "*", "*", "*", "*", "*", "*", "*", "*", "*">>
    ELSE x.v

(***************************************************************************)
(* What a statement does: return a value, raise, or fall off the end of    *)
(* the loop body into its next iteration.                                  *)
(***************************************************************************)
Return(v) == [kind |-> "return", exc |-> "none", value |-> v]
Raise(e) == [kind |-> "raise", exc |-> e, value |-> None]
Continue == [kind |-> "continue", exc |-> "none", value |-> None]

\* Python's exception classes: the bases of each class, itself included
Bases(e) ==
    CASE e = "ValueError" -> {"ValueError", "Exception", "BaseException"}
      [] e = "ArithmeticError" -> {"ArithmeticError", "Exception", "BaseException"}
      [] e = "ZeroDivisionError" ->
            {"ZeroDivisionError", "ArithmeticError", "Exception", "BaseException"}
      [] e = "InvalidOperation" ->
            {"InvalidOperation", "ArithmeticError", "Exception", "BaseException"}
      [] e = "AttributeError" -> {"AttributeError", "Exception", "BaseException"}
      [] e = "TypeError" -> {"TypeError", "Exception", "BaseException"}
      [] e = "EOFError" -> {"EOFError", "Exception", "BaseException"}
      [] e = "KeyboardInterrupt" -> {"KeyboardInterrupt", "BaseException"}
      [] e = "ValidationError" ->
            {"ValidationError", "PromptanticError", "Exception", "BaseException"}
      [] OTHER -> {e}

\* try: <out> except <classes>: raise ValidationError(msg) from e
ExceptAs(out, classes) ==
    IF out.kind = "raise" /\ Bases(out.exc) \cap classes # {}
    THEN Raise("ValidationError") ELSE out

\* the cancel signals prompt_async raises instead of returning a line
Signals == {"KeyboardInterrupt", "EOFError"}

(***************************************************************************)
(* re.match: a backtracking matcher over the pattern's syntax tree.        *)
(* Ends(r, s, i) is the set of positions at which a match of r that        *)
(* starts at position i of s can end.                                      *)
(***************************************************************************)
ReSet(cs) == [op |-> "set", cs |-> cs, neg |-> FALSE]
ReNot(cs) == [op |-> "set", cs |-> cs, neg |-> TRUE]
ReCat(rs) == [op |-> "cat", rs |-> rs]
ReAlt(rs) == [op |-> "alt", rs |-> rs]
\* r{lo,hi}; hi = -1 for no upper limit
ReRep(r, lo, hi) == [op |-> "rep", r |-> r, lo |-> lo, hi |-> hi]
ReBol == [op |-> "bol"]
ReEol == [op |-> "eol"]
ReLit(c) == ReSet({c})
\* a literal under re.IGNORECASE
ReLitI(c) == ReSet({LowerChar(c), UpperChar(c)})
ReWordI(w) == ReCat([i \in 1..Len(w) |-> ReLitI(w[i])])
RePlus(r) == ReRep(r, 1, 0 - 1)
ReOpt(r) == ReRep(r, 0, 1)

RECURSIVE Ends(_, _, _), CatEnds(_, _, _), RepEnds(_, _, _, _, _, _)
Ends(r, s, i) ==
    CASE r.op = "set" ->
            IF i <= Len(s) /\ ((s[i] \in r.cs) # r.neg) THEN {i + 1} ELSE {}
      [] r.op = "cat" -> CatEnds(r.rs, s, {i})
      [] r.op = "alt" -> UNION {Ends(r.rs[k], s, i) : k \in 1..Len(r.rs)}
      [] r.op = "rep" -> RepEnds(r.r, s, {i}, r.lo, r.hi, 0)
      [] r.op = "bol" -> IF i = 1 THEN {i} ELSE {}
      [] r.op = "eol" -> IF i = Len(s) + 1 THEN {i} ELSE {}

CatEnds(rs, s, from) ==
    IF rs = <<>> \/ from = {} THEN from
    ELSE CatEnds(Tail(rs), s, UNION {Ends(Head(rs), s, p) : p \in from})

RepEnds(r, s, from, lo, hi, n) ==
    (IF n >= lo THEN from ELSE {})
        \cup (IF from # {} /\ (hi < 0 \/ n < hi) /\ n <= Len(s) + lo
              THEN RepEnds(r, s, UNION {Ends(r, s, p) : p \in from}, lo, hi, n + 1)
              ELSE {})

\* bool(re.match(pattern, s)): the pattern matches a prefix of s
ReMatch(r, s) == Ends(r, s, 1) # {}

AlnumI == Digits \cup Lower \cup Upper

\* EmailHandler._email_regex: [^@]+@[^@]+\.[^@]+
EmailRegex ==
    ReCat(<<RePlus(ReNot({"@"})), ReLit("@"), RePlus(ReNot({"@"})), ReLit("."),
            RePlus(ReNot({"@"}))>>)

\* URLHandler._url_regex, compiled with re.IGNORECASE
UrlRegex ==
    LET label  == ReCat(<<ReSet(AlnumI),
                          ReOpt(ReCat(<<ReRep(ReSet(AlnumI \cup {"-"}), 0, 61),
                                        ReSet(AlnumI)>>)),
                          ReLit(".")>>)
        domain == ReCat(<<RePlus(label), ReRep(ReSet(Lower \cup Upper), 2, 6),
                          ReOpt(ReLit("."))>>)
        octet  == ReRep(ReSet(Digits), 1, 3)
        ip     == ReCat(<<octet, ReLit("."), octet, ReLit("."), octet, ReLit("."),
                          octet>>)
        port   == ReOpt(ReCat(<<ReLit(":"), RePlus(ReSet(Digits))>>))
        path   == ReAlt(<<ReOpt(ReLit("/")),
                          ReCat(<<ReSet({"/", "?"}), RePlus(ReNot(Whitespace))>>)>>)
    IN  ReCat(<<ReBol, ReWordI(<<"h", "t", "t", "p">>), ReOpt(ReLitI("s")),
                ReLit(":"), ReLit("/"), ReLit("/"),
                ReAlt(<<domain,
                        ReWordI(<<"l", "o", "c", "a", "l", "h", "o", "s", "t">>),
                        ip>>),
                port, path, ReEol>>)

\* the patterns a schema declares (constr pattern, email_pattern, url_pattern),
\* by name: ^\d+$ , y , [^@]+@x
Pattern(name) ==
    CASE name = "digits" -> ReCat(<<ReBol, RePlus(ReSet(Digits)), ReEol>>)
      [] name = "y" -> ReLit("y")
      [] name = "at_x" -> ReCat(<<RePlus(ReNot({"@"})), ReLit("@"), ReLit("x")>>)

(***************************************************************************)
(* uuid.UUID(text) and str(UUID).                                          *)
(***************************************************************************)
RECURSIVE StripBraces(_)
StripBraces(s) ==
    IF s # <<>> /\ Head(s) \in {"{", "}"} THEN StripBraces(Tail(s))
    ELSE IF s # <<>> /\ s[Len(s)] \in {"{", "}"}
         THEN StripBraces(SubSeq(s, 1, Len(s) - 1))
    ELSE s

HexDigits == Digits \cup HexLetters

\* int(hex, 16) of UUID.__init__, then its range test: the 32 hex digits of
\* the value, or a failure.  The lines hold no "urn:", "uuid:" or "0x" prefix.
UUIDParse(s) ==
    LET hex    == RemoveChar(StripBraces(s), "-")
        body   == Unsigned(Strip(hex))
        digits == RemoveChar(body, "_")
        group  == /\ body # <<>>
                  /\ AllIn(body, HexDigits \cup {"_"})
                  /\ body[1] # "_"
                  /\ body[Len(body)] # "_"
                  /\ \A i \in 1..(Len(body) - 1) :
                        ~(body[i] = "_" /\ body[i + 1] = "_")
        inrange == Sign(Strip(hex)) = 1 \/ AllIn(digits, {"0"})
    IN  IF Len(hex) = 32 /\ group /\ inrange
        THEN Parsed([i \in 1..32 |->
                        IF i <= 32 - Len(digits) THEN "0"
                        ELSE LowerChar(digits[i - (32 - Len(digits))])])
        ELSE Failed

\* str(UUID): 8-4-4-4-12
UUIDStr(h) ==
    SubSeq(h, 1, 8) \o <<"-">> \o SubSeq(h, 9, 12) \o <<"-">> \o SubSeq(h, 13, 16)
        \o <<"-">> \o SubSeq(h, 17, 20) \o <<"-">> \o SubSeq(h, 21, 32)

(***************************************************************************)
(* pathlib on a small file system.  The paths of the model hold no "..",   *)
(* no doubled or trailing "/" and no link.                                 *)
(***************************************************************************)
Cwd == <<"/", "w">>
Home == <<"/", "h">>
Dirs == {<<"/">>, Cwd, Home}
Files == {Cwd \o <<"/", "1">>}

\* str(Path(s)): the empty path is "."
PathOf(s) == IF s = <<>> THEN <<".">> ELSE s

\* Path.expanduser()
ExpandUser(p) ==
    IF p = <<"~">> \/ (Len(p) >= 2 /\ p[1] = "~" /\ p[2] = "/")
    THEN Home \o Tail(p) ELSE p

\* Path.resolve(): absolute, against the working directory
Resolve(p) ==
    IF p = <<".">> THEN Cwd
    ELSE IF Head(p) = "/" THEN p
    ELSE Cwd \o <<"/">> \o p

PathExists(p) == p \in Dirs \cup Files
PathIsFile(p) == p \in Files
PathIsDir(p) == p \in Dirs

(***************************************************************************)
(* The arguments of handle(): the handler, the default, the attributes of  *)
(* field_type and options["field_info"].json_schema_extra.                 *)
(*   An attribute of field_type is missing (the object has no such         *)
(* attribute), None, or a value.                                           *)
(***************************************************************************)
Missing == [s |-> "missing", v |-> 0]
Unset == [s |-> "none", v |-> 0]
Val(n) == [s |-> "val", v |-> n]
NoPattern == [s |-> "none", v |-> ""]
MissingPattern == [s |-> "missing", v |-> ""]
Pat(name) == [s |-> "val", v |-> name]

\* getattr(field_type, name, None)
GetAttrOrNone(a) == IF a.s = "missing" THEN [a EXCEPT !.s = "none"] ELSE a

IsNone(x) == x.t = "NoneType"

\* "if not result: return default", the test for a default forgotten
EmptyWithDefault_untested(result, default) == result = <<>>

\* "if not result and default is not None"
EmptyWithDefault(result, default) == result = <<>> /\ ~IsNone(default)

\* the prompt handed to the input surface: create_field_prompt's default,
\* prompt_async's default text and is_password
PromptArgs(display, prefill, masked) ==
    [kind |-> "prompt", display |-> display, prefill |-> prefill, masked |-> masked,
     completer |-> "none"]

\* prompt_async(create_field_prompt(..., default=default_str),
\*              default=default_str if default_str is not None else "")
PromptWith(default_str) ==
    PromptArgs(default_str, IF IsNone(default_str) THEN <<>> ELSE default_str.v, FALSE)

\* BaseHandler.format_default: None, or str(default)
format_default(default) ==
    IF IsNone(default) THEN Return(None) ELSE Return(PyStr(PyStrOf(default)))

\* field_extra = getattr(field_info, "json_schema_extra", {}) if field_info else {}
\* followed by field_extra.get(key): fails on a json_schema_extra of None
ExtraGetFails(extra) == extra.info = "none"

(***************************************************************************)
(* primitives.py                                                           *)
(***************************************************************************)
StrHandler_pre(c) ==
    IF ExtraGetFails(c.extra) THEN Raise("AttributeError")
    ELSE PromptWith(format_default(c.default).value)

StrHandler_body(c, result) == Return(PyStr(result))

IntHandler_except == {"ValueError"}

IntHandler_pre(c) == PromptWith(format_default(c.default).value)

IntHandler_body(c, result) ==
    ExceptAs(IF EmptyWithDefault(result, c.default) THEN Return(c.default)
             ELSE IF IntParse(result).ok THEN Return(PyInt(IntParse(result).v))
             ELSE Raise("ValueError"),
             IntHandler_except)

\* float(x)
ToFloat(x) ==
    CASE x.t \in {"float", "Decimal", "int", "str"} -> DecParse(x.v)
      [] x.t = "bool" -> Parsed(<<IF BoolOf(x) THEN 1 ELSE 0, 0>>)
      [] OTHER -> Failed

FloatHandler_format_default(default) ==
    IF IsNone(default) THEN Return(None)
    ELSE IF ToFloat(default).ok THEN Return(PyStr(FloatRepr(ToFloat(default).v)))
    ELSE Raise(IF default.t = "str" THEN "ValueError" ELSE "TypeError")

FloatHandler_except == {"ValueError"}

FloatHandler_pre(c) ==
    LET d == FloatHandler_format_default(c.default)
    IN  IF d.kind = "raise" THEN ExceptAs(d, FloatHandler_except)
        ELSE PromptWith(d.value)

FloatHandler_body(c, result) ==
    ExceptAs(IF EmptyWithDefault(result, c.default) THEN Return(c.default)
             ELSE IF DecParse(result).ok THEN Return(PyFloat(DecParse(result).v))
             ELSE Raise("ValueError"),
             FloatHandler_except)

\* Decimal(str(x))
ToDecimal(x) ==
    IF DecParse(PyStrOf(x)).ok THEN Return(PyDecimal(DecParse(PyStrOf(x)).v))
    ELSE Raise("InvalidOperation")

DecimalHandler_format_default(default) ==
    IF IsNone(default) THEN Return(None)
    ELSE IF default.t = "Decimal" THEN Return(PyStr(PyStrOf(default)))
    ELSE IF ToDecimal(default).kind = "raise" THEN ToDecimal(default)
    ELSE Return(PyStr(PyStrOf(ToDecimal(default).value)))

DecimalHandler_except == {"ValueError", "ArithmeticError"}

DecimalHandler_pre(c) ==
    LET d == DecimalHandler_format_default(c.default)
    IN  IF d.kind = "raise" THEN ExceptAs(d, DecimalHandler_except)
        ELSE PromptWith(d.value)

DecimalHandler_body(c, result) ==
    ExceptAs(IF EmptyWithDefault(result, c.default)
             THEN (IF c.default.t = "Decimal" THEN Return(c.default)
                   ELSE ToDecimal(c.default))
             ELSE IF DecParse(result).ok THEN Return(PyDecimal(DecParse(result).v))
             ELSE Raise("InvalidOperation"),
             DecimalHandler_except)

\* bool(x) of a default
Truthy(x) ==
    CASE x.t = "bool" -> BoolOf(x)
      [] x.t = "int" -> IntOf(x) # 0
      [] x.t = "str" -> x.v # <<>>
      [] x.t = "NoneType" -> FALSE
      [] OTHER -> TRUE

BoolTrue == {<<"y">>, <<"y", "e", "s">>, <<"t", "r", "u", "e">>, <<"1">>}
BoolFalse == {<<"n">>, <<"n", "o">>, <<"f", "a", "l", "s", "e">>, <<"0">>}

BoolHandler_pre(c) ==
    PromptWith(IF IsNone(c.default) THEN None
               ELSE IF Truthy(c.default) THEN PyStr(<<"y">>) ELSE PyStr(<<"n">>))

\* a handler that strips the line before it tests it for emptiness
BoolHandler_body_stripped(c, result) ==
    IF EmptyWithDefault(Strip(result), c.default) THEN Return(c.default)
    ELSE IF Strip(StrLower(result)) \in BoolTrue THEN Return(PyBool(TRUE))
    ELSE IF Strip(StrLower(result)) \in BoolFalse THEN Return(PyBool(FALSE))
    ELSE Raise("ValidationError")

BoolHandler_body(c, result) ==
    IF EmptyWithDefault(result, c.default) THEN Return(c.default)
    ELSE IF Strip(StrLower(result)) \in BoolTrue THEN Return(PyBool(TRUE))
    ELSE IF Strip(StrLower(result)) \in BoolFalse THEN Return(PyBool(FALSE))
    ELSE Raise("ValidationError")

(***************************************************************************)
(* special.py                                                              *)
(***************************************************************************)
Placeholder == PyStr(<<"*", "*", "*", "*", "*", "*", "*", "*">>)

\* the secret itself shown as the default
SecretStrHandler_pre_shown(c) ==
    PromptArgs(IF ~IsNone(c.default) THEN PyStr(c.default.v) ELSE None, <<>>, TRUE)

\* prompt_async(create_field_prompt(..., default=default_placeholder),
\*              is_password=True)
SecretStrHandler_pre(c) ==
    PromptArgs(IF ~IsNone(c.default) THEN Placeholder ELSE None, <<>>, TRUE)

SecretStrHandler_body(c, result) ==
    IF EmptyWithDefault(result, c.default) THEN Return(c.default)
    ELSE Return(PySecret(result))

\* Path(x).expanduser().resolve(): x must be a str or a Path
ResolvedPath(x) ==
    IF x.t \in {"str", "Path"} THEN Return(PyPath(Resolve(ExpandUser(PathOf(x.v)))))
    ELSE Raise("TypeError")

PathHandler_format_default(default) ==
    IF IsNone(default) THEN Return(None)
    ELSE IF default.t \in {"str", "Path"}
         THEN Return(PyStr(ExpandUser(PathOf(default.v))))
    ELSE Return(PyStr(PyStrOf(default)))

PathHandler_except == {"Exception"}

PathHandler_pre(c) == PromptWith(PathHandler_format_default(c.default).value)

PathHandler_body(c, result) ==
    LET path == ResolvedPath(PyStr(result)).value.v
    IN  ExceptAs(
            IF EmptyWithDefault(result, c.default) THEN ResolvedPath(c.default)
            ELSE IF ExtraGetFails(c.extra) THEN Raise("AttributeError")
            ELSE IF c.extra.must_exist /\ ~PathExists(path) THEN Raise("ValidationError")
            ELSE IF c.extra.file_only /\ ~PathIsFile(path) THEN Raise("ValidationError")
            ELSE IF c.extra.dir_only /\ ~PathIsDir(path) THEN Raise("ValidationError")
            ELSE Return(PyPath(path)),
            PathHandler_except)

\* UUID(x) of a str
ToUUID(x) ==
    IF UUIDParse(x.v).ok THEN Return(PyUUID(UUIDStr(UUIDParse(x.v).v)))
    ELSE Raise("ValueError")

UUIDHandler_format_default(default) ==
    IF IsNone(default) THEN Return(None)
    ELSE IF default.t = "str"
         THEN (IF ToUUID(default).kind = "raise" THEN ToUUID(default)
               ELSE Return(PyStr(ToUUID(default).value.v)))
    ELSE Return(PyStr(PyStrOf(default)))

UUIDHandler_except == {"ValueError"}

\* format_default is called before the loop, outside the try
UUIDHandler_pre(c) ==
    LET d == UUIDHandler_format_default(c.default)
    IN  IF d.kind = "raise" THEN d ELSE PromptWith(d.value)

UUIDHandler_body(c, result) ==
    ExceptAs(IF EmptyWithDefault(result, c.default)
             THEN (IF c.default.t = "str" THEN ToUUID(c.default) ELSE Return(c.default))
             ELSE ToUUID(PyStr(result)),
             UUIDHandler_except)

\* re.compile(custom_pattern) if custom_pattern else self._email_regex
ActiveRegex(custom, builtin) == IF custom # "" THEN Pattern(custom) ELSE builtin

\* a loop body that returns the default on an empty line without matching it
MatchOrReject_untested(regex, c, result) ==
    IF EmptyWithDefault(result, c.default) THEN Return(c.default)
    ELSE IF ReMatch(regex, result) THEN Return(PyStr(result))
    ELSE Raise("ValidationError")

\* the loop body EmailHandler and URLHandler share, but for the regex
MatchOrReject(regex, c, result) ==
    IF EmptyWithDefault(result, c.default)
    THEN (IF ~ReMatch(regex, c.default.v) THEN Raise("ValidationError")
          ELSE Return(c.default))
    ELSE IF ReMatch(regex, result) THEN Return(PyStr(result))
    ELSE Raise("ValidationError")

\* field_extra.get("email_pattern") comes before the prompt
EmailHandler_pre(c) ==
    IF ExtraGetFails(c.extra) THEN Raise("AttributeError") ELSE PromptWith(c.default)

EmailHandler_body(c, result) ==
    MatchOrReject(ActiveRegex(c.extra.email_pattern, EmailRegex), c, result)

URLHandler_pre(c) ==
    IF ExtraGetFails(c.extra) THEN Raise("AttributeError") ELSE PromptWith(c.default)

URLHandler_body(c, result) ==
    MatchOrReject(ActiveRegex(c.extra.url_pattern, UrlRegex), c, result)

\* the import paths the validator of the Annotated type accepts; on any
\* other text it raises ValueError
Importable == {<<"o", "s">>, <<"y">>}
Validate(text) == IF text \in Importable THEN Return(None) ELSE Raise("ValueError")

ImportStringHandler_except == {"ValueError"}

\* no validator in the type: ValueError("Invalid ImportString type")
ImportStringHandler_pre(c) ==
    IF c.ftype.validator = "none" THEN Raise("ValueError") ELSE PromptWith(c.default)

ImportStringHandler_body(c, result) ==
    IF EmptyWithDefault(result, c.default)
    THEN (IF Validate(c.default.v).kind = "raise"
          THEN ExceptAs(Validate(c.default.v), ImportStringHandler_except)
          ELSE Return(c.default))
    ELSE IF Validate(result).kind = "raise"
         THEN ExceptAs(Validate(result), ImportStringHandler_except)
    ELSE Return(PyStr(result))

(***************************************************************************)
(* constrained.py                                                          *)
(***************************************************************************)
ConstrainedStrHandler_except == {"ValueError"}

\* create_field_prompt(field_name, full_desc): no default is shown or filled in
ConstrainedStrHandler_pre(c) == PromptArgs(None, <<>>, FALSE)

\* the checks read field_type.min_length, .max_length and .pattern directly,
\* inside the try
ConstrainedStrHandler_body(c, result) ==
    LET t == c.ftype
    IN  ExceptAs(
            IF t.min_length.s = "missing" THEN Raise("AttributeError")
            ELSE IF t.min_length.s = "val" /\ Len(result) < t.min_length.v
                 THEN Raise("ValueError")
            ELSE IF t.max_length.s = "missing" THEN Raise("AttributeError")
            ELSE IF t.max_length.s = "val" /\ Len(result) > t.max_length.v
                 THEN Raise("ValueError")
            ELSE IF t.pattern.s = "missing" THEN Raise("AttributeError")
            ELSE IF t.pattern.s = "val" /\ ~ReMatch(Pattern(t.pattern.v), result)
                 THEN Raise("ValueError")
            ELSE Return(PyStr(result)),
            ConstrainedStrHandler_except)

ConstrainedIntHandler_except == {"ValueError"}

ConstrainedIntHandler_pre(c) == PromptArgs(None, <<>>, FALSE)

\* Python's value % m = 0, for m # 0
Divides(m, value) == Abs(value) % Abs(m) = 0

\* the ge test left out
ConstrainedIntHandler_body_noge(c, result) ==
    LET gt == GetAttrOrNone(c.ftype.gt)
        value == IntParse(result).v
    IN  ExceptAs(
            IF ~IntParse(result).ok THEN Raise("ValueError")
            ELSE IF gt.s = "val" /\ value <= gt.v THEN Raise("ValueError")
            ELSE Return(PyInt(value)),
            ConstrainedIntHandler_except)

\* the constraints come from getattr(field_type, name, None)
ConstrainedIntHandler_body(c, result) ==
    LET gt == GetAttrOrNone(c.ftype.gt)
        ge == GetAttrOrNone(c.ftype.ge)
        lt == GetAttrOrNone(c.ftype.lt)
        le == GetAttrOrNone(c.ftype.le)
        multiple_of == GetAttrOrNone(c.ftype.multiple_of)
        value == IntParse(result).v
    IN  ExceptAs(
            IF ~IntParse(result).ok THEN Raise("ValueError")
            ELSE IF gt.s = "val" /\ value <= gt.v THEN Raise("ValueError")
            ELSE IF ge.s = "val" /\ value < ge.v THEN Raise("ValueError")
            ELSE IF lt.s = "val" /\ value >= lt.v THEN Raise("ValueError")
            ELSE IF le.s = "val" /\ value > le.v THEN Raise("ValueError")
            ELSE IF multiple_of.s = "val" /\ multiple_of.v = 0
                 THEN Raise("ZeroDivisionError")
            ELSE IF multiple_of.s = "val" /\ ~Divides(multiple_of.v, value)
                 THEN Raise("ValueError")
            ELSE Return(PyInt(value)),
            ConstrainedIntHandler_except)

(***************************************************************************)
(* The calls the model makes.                                              *)
(***************************************************************************)
NoExtra ==
    [info |-> "absent", must_exist |-> FALSE, file_only |-> FALSE,
     dir_only |-> FALSE, email_pattern |-> "", url_pattern |-> ""]
\* a field_info whose json_schema_extra is None
ExtraNone == [NoExtra EXCEPT !.info = "none"]
ExtraDict == [NoExtra EXCEPT !.info = "dict"]

NoType ==
    [min_length |-> Unset, max_length |-> Unset, pattern |-> NoPattern,
     gt |-> Unset, ge |-> Unset, lt |-> Unset, le |-> Unset,
     multiple_of |-> Unset, validator |-> "none"]

Args(h, ftype, default, extra) ==
    [h |-> h, ftype |-> ftype, default |-> default, extra |-> extra]

Hex32 == [i \in 1..32 |-> IF i % 2 = 0 THEN "a" ELSE "1"]
AUuid == UUIDStr(Hex32)

StrTypes ==
    { [NoType EXCEPT !.min_length = Val(1)],
      [NoType EXCEPT !.max_length = Val(2)],
      [NoType EXCEPT !.min_length = Val(1), !.max_length = Val(3),
                     !.pattern = Pat("y")],
      [NoType EXCEPT !.pattern = Pat("digits")],
      NoType,
      [NoType EXCEPT !.min_length = Missing],
      [NoType EXCEPT !.min_length = Val(1), !.max_length = Missing,
                     !.pattern = MissingPattern],
      [NoType EXCEPT !.max_length = Val(2), !.pattern = MissingPattern] }

IntTypes ==
    { [NoType EXCEPT !.ge = Val(0)],
      [NoType EXCEPT !.gt = Val(0), !.lt = Val(11)],
      [NoType EXCEPT !.le = Val(11), !.multiple_of = Val(2)],
      [NoType EXCEPT !.ge = Val(0 - 1), !.multiple_of = Val(0 - 11)],
      [NoType EXCEPT !.gt = Missing, !.ge = Missing, !.lt = Val(1),
                     !.le = Missing, !.multiple_of = Missing],
      [NoType EXCEPT !.multiple_of = Val(0)],
      NoType }

Calls ==
    {Args("StrHandler", NoType, d, e) :
        d \in {None, PyStr(<<"a", "b">>)}, e \in {NoExtra, ExtraNone, ExtraDict}}
    \cup {Args("IntHandler", NoType, d, NoExtra) : d \in {None, PyInt(0), PyInt(7)}}
    \cup {Args("FloatHandler", NoType, d, NoExtra) :
            d \in {None, PyFloat(<<15, 1>>), PyFloat(<<0, 0>>), PyInt(2),
                   PyStr(<<"a", "b">>)}}
    \cup {Args("DecimalHandler", NoType, d, NoExtra) :
            d \in {None, PyDecimal(<<15, 1>>), PyInt(2), PyStr(<<"1", ".", "5">>),
                   PyStr(<<"a", "b">>)}}
    \cup {Args("BoolHandler", NoType, d, NoExtra) :
            d \in {None, PyBool(TRUE), PyBool(FALSE)}}
    \cup {Args("SecretStrHandler", NoType, d, NoExtra) :
            d \in {None, PySecret(<<"p", "w">>), PySecret(<<"y">>)}}
    \cup {Args("PathHandler", NoType, d, e) :
            d \in {None, PyStr(<<"1">>), PyPath(Cwd \o <<"/", "1">>), PyStr(<<"~">>),
                   PyInt(5)},
            e \in {NoExtra, ExtraNone, [ExtraDict EXCEPT !.must_exist = TRUE],
                   [ExtraDict EXCEPT !.file_only = TRUE],
                   [ExtraDict EXCEPT !.dir_only = TRUE]}}
    \cup {Args("UUIDHandler", NoType, d, NoExtra) :
            d \in {None, PyUUID(AUuid), PyStr(Hex32), PyStr(<<"a", "b">>)}}
    \cup {Args("EmailHandler", NoType, d, e) :
            d \in {None, PyStr(<<"a", "@", "b", ".", "c">>), PyStr(<<"a", "b">>)},
            e \in {NoExtra, ExtraNone, ExtraDict,
                   [ExtraDict EXCEPT !.email_pattern = "at_x"]}}
    \cup {Args("URLHandler", NoType, d, e) :
            d \in {None, PyStr(<<"h", "t", "t", "p", ":", "/", "/", "a", ".", "b", "c">>),
                   PyStr(<<"a", "b">>)},
            e \in {NoExtra, ExtraNone, ExtraDict,
                   [ExtraDict EXCEPT !.url_pattern = "y"]}}
    \cup {Args("ImportStringHandler", [NoType EXCEPT !.validator = v], d, NoExtra) :
            v \in {"none", "import_string"},
            d \in {None, PyStr(<<"o", "s">>), PyStr(<<"a", "b">>)}}
    \cup {Args("ConstrainedStrHandler", t, d, NoExtra) :
            t \in StrTypes, d \in {None, PyStr(<<"y">>)}}
    \cup {Args("ConstrainedIntHandler", t, d, NoExtra) :
            t \in IntTypes, d \in {None, PyInt(2)}}

\* the lines the user may enter
Alphabet == {"1", "-", " ", "y"}
Corpus ==
    { <<"A", "d", "a">>, <<"3", "6">>, <<"x">>, <<"n">>, <<"Y">>, <<"0">>, <<"5">>,
      <<"1", ".", "5">>, <<"1", "2">>, <<"o", "s">>, <<"~">>, Cwd \o <<"/", "1">>,
      <<"a", "@", "b", ".", "c">>, <<"a", "@", "x">>, Hex32, AUuid,
      <<"h", "t", "t", "p", ":", "/", "/", "a", ".", "b", "c">>,
      <<"h", "t", "t", "p", ":", "/", "/", "l", "o", "c", "a", "l", "h", "o", "s", "t">>,
      <<"Y", "e", "s">>, <<"t", "r", "u", "e">>, <<" ", "N", "O">>,
      <<"F", "a", "l", "s", "e", " ">>, <<"o", "n">> }
Lines == UNION {[1..n -> Alphabet] : n \in 0..MaxLen} \cup Corpus

(***************************************************************************)
(* One handle() call, and the retry loop around it.                        *)
(***************************************************************************)
VARIABLES
    args,       \* the arguments the retry loop passes to handle()
    self,       \* the attributes of the handler object
    pc,         \* "idle", "prompting" (suspended on prompt_async), "body", "done"
    prompt,     \* what the last prompt handed to the input surface
    result,     \* the line prompt_async returned
    event,      \* what the input surface delivered to the call: "none", "line", a signal
    prompts,    \* prompts issued by the call in progress
    outcome,    \* how the last call ended
    attempts,   \* calls of handle() made so far for this field
    mode,       \* the traversal: "leaf", "field", "element", "continue", "assembled"
    field,      \* index of the record field being elicited
    items,      \* the elements collected for the container being elicited
    instance,   \* the values of the fields elicited so far
    input,      \* the lines the user is still to enter, for a scripted session
    log         \* the attempts of a scripted session: field, line, accepted

hvars == <<args, self, pc, prompt, result, event, prompts, outcome, attempts>>
rvars == <<mode, field, items, instance, input, log>>
vars == <<args, self, pc, prompt, result, event, prompts, outcome, attempts,
          mode, field, items, instance, input, log>>

\* the code of handle() up to its first prompt
Pre(c) ==
    CASE c.h = "StrHandler" -> StrHandler_pre(c)
      [] c.h = "IntHandler" -> IntHandler_pre(c)
      [] c.h = "FloatHandler" -> FloatHandler_pre(c)
      [] c.h = "DecimalHandler" -> DecimalHandler_pre(c)
      [] c.h = "BoolHandler" -> BoolHandler_pre(c)
      [] c.h = "SecretStrHandler" -> SecretStrHandler_pre(c)
      [] c.h = "PathHandler" -> PathHandler_pre(c)
      [] c.h = "UUIDHandler" -> UUIDHandler_pre(c)
      [] c.h = "EmailHandler" -> EmailHandler_pre(c)
      [] c.h = "URLHandler" -> URLHandler_pre(c)
      [] c.h = "ImportStringHandler" -> ImportStringHandler_pre(c)
      [] c.h = "ConstrainedStrHandler" -> ConstrainedStrHandler_pre(c)
      [] c.h = "ConstrainedIntHandler" -> ConstrainedIntHandler_pre(c)

\* the code of handle() after prompt_async returned a line
Body(c, line) ==
    CASE c.h = "StrHandler" -> StrHandler_body(c, line)
      [] c.h = "IntHandler" -> IntHandler_body(c, line)
      [] c.h = "FloatHandler" -> FloatHandler_body(c, line)
      [] c.h = "DecimalHandler" -> DecimalHandler_body(c, line)
      [] c.h = "BoolHandler" -> BoolHandler_body(c, line)
      [] c.h = "SecretStrHandler" -> SecretStrHandler_body(c, line)
      [] c.h = "PathHandler" -> PathHandler_body(c, line)
      [] c.h = "UUIDHandler" -> UUIDHandler_body(c, line)
      [] c.h = "EmailHandler" -> EmailHandler_body(c, line)
      [] c.h = "URLHandler" -> URLHandler_body(c, line)
      [] c.h = "ImportStringHandler" -> ImportStringHandler_body(c, line)
      [] c.h = "ConstrainedStrHandler" -> ConstrainedStrHandler_body(c, line)
      [] c.h = "ConstrainedIntHandler" -> ConstrainedIntHandler_body(c, line)

\* the handler's format_default
FormatDefault(c) ==
    CASE c.h = "FloatHandler" -> FloatHandler_format_default(c.default)
      [] c.h = "DecimalHandler" -> DecimalHandler_format_default(c.default)
      [] c.h = "PathHandler" -> PathHandler_format_default(c.default)
      [] c.h = "UUIDHandler" -> UUIDHandler_format_default(c.default)
      [] OTHER -> format_default(c.default)

\* the classes of the except clause whose try encloses "await prompt_async"
PromptTry(h) ==
    CASE h = "IntHandler" -> IntHandler_except
      [] h = "FloatHandler" -> FloatHandler_except
      [] h = "DecimalHandler" -> DecimalHandler_except
      [] h = "PathHandler" -> PathHandler_except
      [] h = "UUIDHandler" -> UUIDHandler_except
      [] h = "ConstrainedIntHandler" -> ConstrainedIntHandler_except
      [] OTHER -> {}

\* PathHandler.__init__ and ImportStringHandler.__init__
HandlerInit(h) ==
    [completer |->
        CASE h = "PathHandler" -> "EnhancedPathCompleter"
          [] h = "ImportStringHandler" -> "ImportStringCompleter"
          [] OTHER -> "none"]

\* PromptSession(completer=self.completer)
SessionCompleter(c, s) ==
    IF c.h \in {"PathHandler", "ImportStringHandler"} THEN s.completer ELSE "none"

\* a handler that keeps something of a rejected call in its attributes
AttributesAfter_kept(c, s, out) ==
    IF out.kind = "raise" THEN [s EXCEPT !.completer = "used"] ELSE s

\* the attributes of the handler once handle() has ended: it assigns none
AttributesAfter(c, s, out) == s

NoOutcome == [kind |-> "none", exc |-> "none", value |-> None]
NoPrompt == PromptArgs(None, <<>>, FALSE)

\* a handler object about to be called for the first time
Fresh(c) ==
    /\ args = c
    /\ self = HandlerInit(c.h)
    /\ pc = "idle"
    /\ prompt = NoPrompt
    /\ result = <<>>
    /\ event = "none"
    /\ prompts = 0
    /\ outcome = NoOutcome
    /\ attempts = 1

\* the call ends: its outcome, and what it leaves in the handler
End(out) ==
    /\ pc' = "done"
    /\ outcome' = out
    /\ self' = AttributesAfter(args, self, out)

\* the first prompt of a call
FirstPrompt(p) ==
    /\ pc' = "prompting"
    /\ prompt' = [p EXCEPT !.completer = SessionCompleter(args, self)]
    /\ prompts' = prompts + 1

\* handle() runs up to its first prompt, or raises before it
Call ==
    /\ pc = "idle"
    /\ \/ /\ Pre(args).kind = "raise"
          /\ End(Pre(args))
          /\ UNCHANGED <<prompt, prompts>>
       \/ /\ Pre(args).kind = "prompt"
          /\ FirstPrompt(Pre(args))
          /\ UNCHANGED <<outcome, self>>
    /\ UNCHANGED <<args, result, event, attempts>>

\* the input surface returns a line
ReadLine(line) ==
    /\ pc = "prompting"
    /\ pc' = "body"
    /\ result' = line
    /\ event' = "line"
    /\ UNCHANGED <<args, self, prompt, prompts, outcome, attempts>>

\* the input surface raises a cancel signal instead
Cancel(sig) ==
    /\ pc = "prompting"
    /\ event' = sig
    /\ End(ExceptAs(Raise(sig), PromptTry(args.h)))
    /\ UNCHANGED <<args, prompt, result, prompts, attempts>>

\* the rest of the loop body: return, raise, or go round the loop again
Finish ==
    /\ pc = "body"
    /\ \/ /\ Body(args, result).kind = "continue"
          /\ pc' = "prompting"
          /\ prompts' = prompts + 1
          /\ UNCHANGED <<outcome, self>>
       \/ /\ Body(args, result).kind # "continue"
          /\ End(Body(args, result))
          /\ UNCHANGED prompts
    /\ UNCHANGED <<args, prompt, result, event, attempts>>

\* RetryController: on ValidationError, handle() is invoked again with the
\* same arguments
Retry ==
    /\ pc = "done"
    /\ outcome.kind = "raise"
    /\ outcome.exc = "ValidationError"
    /\ attempts < MaxAttempts
    /\ pc' = "idle"
    /\ attempts' = attempts + 1
    /\ prompts' = 0
    /\ event' = "none"
    /\ UNCHANGED <<args, self, prompt, result, outcome>>

(***************************************************************************)
(* Spec: one leaf field, any handler and arguments, any lines.             *)
(***************************************************************************)
Init ==
    /\ \E c \in Calls : Fresh(c)
    /\ mode = "leaf"
    /\ field = 0
    /\ items = <<>>
    /\ instance = <<>>
    /\ input = <<>>
    /\ log = <<>>

LeafCall == Call /\ UNCHANGED rvars
LeafRead == \E line \in Lines : ReadLine(line) /\ UNCHANGED rvars
LeafCancel == \E sig \in Signals : Cancel(sig) /\ UNCHANGED rvars
LeafFinish == Finish /\ UNCHANGED rvars
LeafRetry == Retry /\ UNCHANGED rvars

Next == LeafCall \/ LeafRead \/ LeafCancel \/ LeafFinish \/ LeafRetry

Spec == Init /\ [][Next]_vars

(***************************************************************************)
(* Properties of one handle() call.                                        *)
(***************************************************************************)
\* the call in progress has ended after reading a line
EndedOnLine == pc = "done" /\ event = "line"

Accepted == outcome.kind = "return"
Rejected == outcome.kind = "raise" /\ outcome.exc = "ValidationError"

\* C1: one call of handle() issues at most one prompt, and once its line is
\* read the call ends by returning a value or raising ValidationError.
OneRoundPerCall ==
    /\ prompts <= 1
    /\ EndedOnLine => Accepted \/ Rejected

\* C2: with no default supplied, a call that has read a line ends only by
\* returning a value or by raising ValidationError, whatever the handler,
\* the field type and the line.
OnlyValidationError ==
    (EndedOnLine /\ IsNone(args.default)) =>
        (outcome.kind = "raise" => outcome.exc = "ValidationError")

\* C3: called with a default, every leaf handler returns on an empty line
\* exactly that default, the same in type and in value.
DefaultRoundTrip ==
    (EndedOnLine /\ result = <<>> /\ ~IsNone(args.default)) =>
        (Accepted /\ Same(outcome.value, args.default))

\* C4: a cancel signal raised by the input surface leaves handle() as that
\* signal, never as ValidationError, so the retry loop does not prompt again.
CancelPropagates ==
    (pc = "done" /\ event \in Signals) =>
        (outcome.kind = "raise" /\ outcome.exc = event /\ ~ENABLED Retry)

\* C5: the secret handler's prompt does not depend on the value of the
\* default: the placeholder "********" when there is a default, nothing when
\* there is none, the input masked and no text filled in, and the same for
\* any two defaults.
SecretPromptIndependent ==
    (args.h = "SecretStrHandler" /\ prompts >= 1) =>
        /\ prompt.masked
        /\ prompt.prefill = <<>>
        /\ Same(prompt.display, IF IsNone(args.default) THEN None ELSE Placeholder)
        /\ \A c \in Calls :
              (c.h = "SecretStrHandler" /\ (IsNone(c.default) <=> IsNone(args.default)))
                  => Pre(c) = Pre(args)

SecretPromptShown ==
    args.h = "SecretStrHandler" /\ ~IsNone(args.default) /\ pc = "prompting"

\* C6: with a default format_default cannot render, handle() behaves as with
\* no default: it prompts and ends as the call without default ends on the
\* line entered.
UnformattableDefault == FormatDefault(args).kind = "raise"

DefaultTreatedAsAbsent ==
    (UnformattableDefault /\ pc = "done" /\ event \notin Signals) =>
        (event = "line" /\ outcome = Body([args EXCEPT !.default = None], result))

\* C7, as claimed: with no default, every leaf handler rejects the empty line.
EmptyLineRejected ==
    (EndedOnLine /\ result = <<>> /\ IsNone(args.default)) => Rejected

\* the handlers whose type has no empty value
RejectsEmpty(c) ==
    \/ c.h \in {"IntHandler", "FloatHandler", "DecimalHandler", "BoolHandler",
                "UUIDHandler", "ConstrainedIntHandler"}
    \/ c.h = "EmailHandler" /\ c.extra.email_pattern = ""
    \/ c.h = "URLHandler" /\ c.extra.url_pattern = ""
    \/ c.h = "ConstrainedStrHandler" /\ c.ftype.min_length.s = "val"
          /\ c.ftype.min_length.v >= 1

\* C7, amended: with no default, the empty line is rejected by the handlers
\* of the types that have no empty value (Int, Float, Decimal, Bool, UUID,
\* ConstrainedInt, Email and URL with the built-in pattern, ConstrainedStr
\* with min_length >= 1); StrHandler and SecretStrHandler return the empty
\* string.
EmptyLineWithoutDefault ==
    (EndedOnLine /\ result = <<>> /\ IsNone(args.default)) =>
        /\ RejectsEmpty(args) => Rejected
        /\ args.h = "StrHandler" => outcome = Return(PyStr(<<>>))
        /\ args.h = "SecretStrHandler" => outcome = Return(PySecret(<<>>))

EmptyLineEntered ==
    /\ EndedOnLine /\ result = <<>> /\ IsNone(args.default)
    /\ args.h = "StrHandler" /\ Accepted

SatisfiesInt(t, v) ==
    /\ t.gt.s = "val" => v > t.gt.v
    /\ t.ge.s = "val" => v >= t.ge.v
    /\ t.lt.s = "val" => v < t.lt.v
    /\ t.le.s = "val" => v <= t.le.v
    /\ t.multiple_of.s = "val" => (t.multiple_of.v # 0 /\ Divides(t.multiple_of.v, v))

SatisfiesStr(t, str) ==
    /\ t.min_length.s = "val" => Len(str) >= t.min_length.v
    /\ t.max_length.s = "val" => Len(str) <= t.max_length.v
    /\ t.pattern.s = "val" => ReMatch(Pattern(t.pattern.v), str)

\* C10: a constrained handler returns a value only if it satisfies every
\* declared constraint, and returns every input that parses and satisfies
\* them all.
ConstraintsExact ==
    /\ (EndedOnLine /\ args.h = "ConstrainedIntHandler") =>
          /\ Accepted =>
                (outcome.value.t = "int" /\ SatisfiesInt(args.ftype, IntOf(outcome.value)))
          /\ (IntParse(result).ok /\ SatisfiesInt(args.ftype, IntParse(result).v))
                => outcome = Return(PyInt(IntParse(result).v))
    /\ (EndedOnLine /\ args.h = "ConstrainedStrHandler") =>
          /\ Accepted =>
                (outcome.value = PyStr(result) /\ SatisfiesStr(args.ftype, result))
          /\ SatisfiesStr(args.ftype, result) => outcome = Return(PyStr(result))

(***************************************************************************)
(* SpecRecord: the traversal of the record                                 *)
(*     {name: string(min=1), age: int(ge=0), tags: list of string}         *)
(* on a scripted session.  The registry resolves a constrained string and  *)
(* a constrained int to the constrained handlers and a plain string to     *)
(* StrHandler; a container elicits one element, then asks whether to       *)
(* continue.                                                               *)
(***************************************************************************)
Schema ==
    << [name |-> "name", kind |-> "leaf",
        args |-> Args("ConstrainedStrHandler", [NoType EXCEPT !.min_length = Val(1)],
                      None, NoExtra)],
       [name |-> "age", kind |-> "leaf",
        args |-> Args("ConstrainedIntHandler", [NoType EXCEPT !.ge = Val(0)],
                      None, NoExtra)],
       [name |-> "tags", kind |-> "list",
        args |-> Args("StrHandler", NoType, None, NoExtra)] >>

\* the y/n question a container asks after each element
ConfirmArgs == Args("BoolHandler", NoType, None, NoExtra)

PyList(elems) == [t |-> "list", v |-> elems]

ScenarioScript ==
    << <<>>, <<"A", "d", "a">>, <<"-", "1">>, <<"3", "6">>, <<"x">>, <<"y">>, <<"y">>,
       <<"n">> >>

\* what else the user may enter at each turn
OtherScript ==
    << <<"x">>, <<>>, <<"3", "6">>, <<"y">>, <<>>, <<"n">>, <<"1">>, <<"y">> >>

Scripts ==
    {[i \in 1..Len(ScenarioScript) |-> IF i \in S THEN OtherScript[i] ELSE ScenarioScript[i]] :
        S \in SUBSET (1..Len(ScenarioScript))}

ModeOf(i) == IF Schema[i].kind = "list" THEN "element" ELSE "field"

FreshNext(c) ==
    /\ args' = c
    /\ self' = HandlerInit(c.h)
    /\ pc' = "idle"
    /\ prompt' = NoPrompt
    /\ result' = <<>>
    /\ event' = "none"
    /\ prompts' = 0
    /\ outcome' = NoOutcome
    /\ attempts' = 1

RecordInit ==
    /\ Fresh(Schema[1].args)
    /\ mode = ModeOf(1)
    /\ field = 1
    /\ items = <<>>
    /\ instance = <<>>
    /\ input \in Scripts
    /\ log = <<>>

RecCall == Call /\ UNCHANGED rvars

RecRead ==
    /\ input # <<>>
    /\ ReadLine(Head(input))
    /\ input' = Tail(input)
    /\ UNCHANGED <<mode, field, items, instance, log>>

RecCancel == \E sig \in Signals : Cancel(sig) /\ UNCHANGED rvars

RecFinish ==
    /\ Finish
    /\ log' = Append(log, [field |-> Schema[field].name, mode |-> mode, line |-> result,
                           accepted |-> Body(args, result).kind = "return"])
    /\ UNCHANGED <<mode, field, items, instance, input>>

RecRetry == Retry /\ UNCHANGED rvars

\* the value of the field is complete: on to the next field in declaration
\* order, or the record is assembled
Advance(value) ==
    /\ instance' = Append(instance, value)
    /\ items' = <<>>
    /\ IF field = Len(Schema)
       THEN /\ mode' = "assembled"
            /\ UNCHANGED <<field, hvars>>
       ELSE /\ field' = field + 1
            /\ mode' = ModeOf(field + 1)
            /\ FreshNext(Schema[field + 1].args)

\* the orchestrator takes the value a handler returned
Collect ==
    /\ pc = "done"
    /\ outcome.kind = "return"
    /\ \/ /\ mode = "field"
          /\ Advance(outcome.value)
       \/ /\ mode = "element"
          /\ items = <<>> /\ outcome.value.v = <<>>
          /\ Advance(PyList(<<>>))
       \/ /\ mode = "element"
          /\ ~(items = <<>> /\ outcome.value.v = <<>>)
          /\ items' = Append(items, outcome.value)
          /\ mode' = "continue"
          /\ FreshNext(ConfirmArgs)
          /\ UNCHANGED <<field, instance>>
       \/ /\ mode = "continue"
          /\ BoolOf(outcome.value)
          /\ mode' = "element"
          /\ FreshNext(Schema[field].args)
          /\ UNCHANGED <<field, items, instance>>
       \/ /\ mode = "continue"
          /\ ~BoolOf(outcome.value)
          /\ Advance(PyList(items))
    /\ UNCHANGED <<input, log>>

RecordNext == RecCall \/ RecRead \/ RecCancel \/ RecFinish \/ RecRetry \/ Collect

SpecRecord == RecordInit /\ [][RecordNext]_vars

\* the lines entered so far, and the whole script of the session
Consumed ==
    [i \in 1..Len(log) |-> log[i].line] \o (IF pc = "body" THEN <<result>> ELSE <<>>)
Script == Consumed \o input

Attempt(f, m, line, ok) == [field |-> f, mode |-> m, line |-> line, accepted |-> ok]

ScenarioLog ==
    << Attempt("name", "field", <<>>, FALSE),
       Attempt("name", "field", <<"A", "d", "a">>, TRUE),
       Attempt("age", "field", <<"-", "1">>, FALSE),
       Attempt("age", "field", <<"3", "6">>, TRUE),
       Attempt("tags", "element", <<"x">>, TRUE),
       Attempt("tags", "continue", <<"y">>, TRUE),
       Attempt("tags", "element", <<"y">>, TRUE),
       Attempt("tags", "continue", <<"n">>, TRUE) >>

ScenarioInstance ==
    <<PyStr(<<"A", "d", "a">>), PyInt(36), PyList(<<PyStr(<<"x">>), PyStr(<<"y">>)>>)>>

YesWords == {<<"y">>, <<"y", "e", "s">>, <<"t", "r", "u", "e">>, <<"1">>}
NoWords == {<<"n">>, <<"n", "o">>, <<"f", "a", "l", "s", "e">>, <<"0">>}

\* the line is blank: not empty, and nothing but whitespace
Blank(line) == line # <<>> /\ AllIn(line, Whitespace)

\* C11: BoolHandler returns the default on an empty line when there is one;
\* otherwise True when the line, lower-cased and stripped, is one of
\* y/yes/true/1, False when it is one of n/no/false/0, and ValidationError
\* for every other line; a blank line is rejected even with a default.
BoolTable ==
    (EndedOnLine /\ args.h = "BoolHandler") =>
        LET word == Strip(StrLower(result))
        IN  /\ (result = <<>> /\ ~IsNone(args.default)) => outcome = Return(args.default)
            /\ ~(result = <<>> /\ ~IsNone(args.default)) =>
                  /\ word \in YesWords => outcome = Return(PyBool(TRUE))
                  /\ word \in NoWords => outcome = Return(PyBool(FALSE))
                  /\ word \notin YesWords \cup NoWords => Rejected
            /\ Blank(result) => Rejected

BlankLineWithDefault ==
    /\ EndedOnLine /\ args.h = "BoolHandler"
    /\ ~IsNone(args.default) /\ Blank(result) /\ Rejected

(***************************************************************************)
(* EmailHandler and URLHandler: what is returned matches the pattern.      *)
(***************************************************************************)
\* the pattern in force for a call: the custom one of the field's extra
\* metadata when there is one, the built-in regex otherwise
ActivePattern(c) ==
    IF c.h = "EmailHandler"
    THEN (IF c.extra.email_pattern # "" THEN Pattern(c.extra.email_pattern)
          ELSE EmailRegex)
    ELSE (IF c.extra.url_pattern # "" THEN Pattern(c.extra.url_pattern)
          ELSE UrlRegex)

\* C12: a value EmailHandler or URLHandler returns matches the active
\* pattern: a typed line is returned only if it matches, and on an empty
\* line the default is returned only if it matches; an empty line with a
\* default that does not match raises ValidationError.
ReturnedMatchesPattern ==
    (EndedOnLine /\ args.h \in {"EmailHandler", "URLHandler"}) =>
        /\ Accepted =>
              /\ outcome.value.t = "str"
              /\ ReMatch(ActivePattern(args), outcome.value.v)
              /\ outcome.value = (IF result = <<>> /\ ~IsNone(args.default)
                                  THEN args.default ELSE PyStr(result))
        /\ (result = <<>> /\ ~IsNone(args.default)
                /\ ~ReMatch(ActivePattern(args), args.default.v)) => Rejected

DefaultFailsPattern ==
    /\ EndedOnLine /\ args.h \in {"EmailHandler", "URLHandler"}
    /\ result = <<>> /\ ~IsNone(args.default)
    /\ ~ReMatch(ActivePattern(args), args.default.v)
    /\ args.extra.email_pattern # ""
    /\ Rejected

(***************************************************************************)
(* SpecLive: the retry loop without a ceiling, and a user who neither      *)
(* cancels nor goes on entering invalid lines for ever: from attempt       *)
(* MaxAttempts on, the lines entered are lines the handler accepts, when   *)
(* there are any.  The count of attempts stops at MaxAttempts; the loop    *)
(* does not.                                                               *)
(***************************************************************************)
LiveRead ==
    /\ \E line \in Lines :
          /\ IF attempts < MaxAttempts THEN TRUE
             ELSE IF Body(args, line).kind = "return" THEN TRUE
             ELSE \A other \in Lines : Body(args, other).kind # "return"
          /\ ReadLine(line)
    /\ UNCHANGED rvars

\* RetryController: handle() is invoked again after each ValidationError;
\* the new call has read no line yet
LiveRetry ==
    /\ pc = "done"
    /\ outcome.kind = "raise"
    /\ outcome.exc = "ValidationError"
    /\ pc' = "idle"
    /\ attempts' = IF attempts < MaxAttempts THEN attempts + 1 ELSE attempts
    /\ prompts' = 0
    /\ event' = "none"
    /\ result' = <<>>
    /\ UNCHANGED <<args, self, prompt, outcome>>
    /\ UNCHANGED rvars

NextLive == LeafCall \/ LiveRead \/ LeafFinish \/ LiveRetry

\* Every action that can be taken is taken in the end: the handler runs,
\* the user answers the prompt, the retry loop calls again.  Each condition
\* is on the steps of one action of NextLive, told by pc, under the
\* action's enabling condition.
SpecLive ==
    /\ Init /\ [][NextLive]_vars
    /\ WF_pc(pc = "idle" /\ pc' \in {"prompting", "done"})
    /\ WF_pc(pc = "prompting" /\ pc' = "body")
    /\ WF_pc(pc = "body" /\ pc' \in {"prompting", "done"})
    /\ WF_vars(LiveRetry)

\* some line is valid for the field: the handler returns a value on it
ValidLineExists == \E line \in Lines : Body(args, line).kind = "return"

\* the call was left by an exception the retry loop does not handle
Escaped == pc = "done" /\ outcome.kind = "raise" /\ outcome.exc # "ValidationError"

\* C13: whatever the handler and the default, when some line is valid and
\* the user eventually enters valid lines, the retry loop eventually returns
\* a value: it does not go on raising ValidationError for ever.  (A loop left
\* by another exception has ended too; that case is not the claim's.)
RetryLiveness == ValidLineExists ~> (Accepted \/ Escaped)

====
